---- MODULE Spec2Model ----
\* Model of examples/train_symbolic_example.py: the checkpoint loader
\* (load_checkpoint_for_resumption), the resume wrapper (ResumeTrainer) and
\* the control flow of main() with its tee log file.
EXTENDS Integers, Sequences, FiniteSets, TLC

VARIABLES
    mode,          \* "main": one run of main(); "runs": main() run again and again;
                   \* "harness": a ResumeTrainer used on its own
    pc,            \* position of the single thread of control
    args,          \* command line of the current run: --num_epochs, --resume_from_checkpoint
    stdout,        \* sys.stdout: "orig" or "tee"
    tee_file,      \* TeeOutput.file: "none", "open", "closed"
    exit_kind,     \* how the try block of main is being left
    model_w,       \* model parameters: where they come from, epochs of training in them
    optim_w,       \* optimizer state: "init" or "ckpt"
    start_epoch,   \* main's local start_epoch
    ld,            \* the last call of load_checkpoint_for_resumption (inputs and result)
    trainer,       \* the wrapped trainer: num_epochs, save_checkpoint, output_dir
    rt,            \* the ResumeTrainer: current_epoch and the locals of train()
    pre,           \* the wrapped trainer as it was when ResumeTrainer.train() was called
    inner_i,       \* epoch index of the wrapped trainer's loop
    inner_invoked, \* the wrapped trainer's train() has been called
    calls,         \* calls that reached the original save_checkpoint, in order
    result,        \* training_result
    disk,          \* checkpoint files written so far
    runs,          \* number of runs of main() started
    left_at,       \* the position at which the try block of main was left
    train_exc,     \* the exception raised in, and leaving, ResumeTrainer.train()
    events,        \* what the current run has done so far, in order
    gen,           \* main's loop over symbolic_prompts
    it             \* test_symbolic_interpretability's loops

vars == <<mode, pc, args, stdout, tee_file, exit_kind, model_w, optim_w,
          start_epoch, ld, trainer, rt, pre, inner_i, inner_invoked, calls,
          result, disk, runs, left_at, train_exc, events, gen, it>>

----------------------------------------------------------------------------
\* Bounds

MaxEpochs == 3        \* --num_epochs of a run of main() is in 0..MaxEpochs
MaxRuns == 2          \* runs of main() in one behaviour
MaxStoredEpoch == 2   \* epoch field of a checkpoint file found on disk is in -1..MaxStoredEpoch
MaxTotal == 5         \* num_epochs of a trainer wrapped on its own is in 0..MaxTotal
MaxStart == 4         \* start_epoch of a ResumeTrainer built on its own is in 0..MaxStart

----------------------------------------------------------------------------
\* Values

None == <<>>
Some(x) == <<x>>

OutputDir == "out"

\* os.path.join(output_dir, f"checkpoint_epoch_{n}.pt")
CheckpointEpochPath(dir, n) == <<dir, "checkpoint_epoch_", n, ".pt">>
\* any other path the wrapped trainer may pass to save_checkpoint
CustomPath(dir) == <<dir, "custom_", 0, ".pt">>
\* os.path.join(args.output_dir, args.save_model_filename)
ModelPath(dir) == <<dir, "symbolic_model", 0, ".pt">>
ForeignPath == <<"elsewhere", "foreign_", 0, ".pt">>
MissingPath == <<"elsewhere", "missing_", 0, ".pt">>

ZeroResult == [final_loss |-> 0, training_time |-> 0]
InnerResult == [final_loss |-> 1, training_time |-> 1]
NoResult == [final_loss |-> -1, training_time |-> -1]

KwargsSet == {<<>>, <<"loss">>}

\* output_dir = None, kept apart from every directory name
NoneDir == "(None)"

\* truth value of a string or None
Truthy(s) == s \notin {"", NoneDir}

\* os.path.join(None, filename) raises TypeError
JoinRaises(dir) == dir = NoneDir

----------------------------------------------------------------------------
\* Checkpoint bundles

\* The dictionary torch.load returns: each key absent or present, and what
\* the value does when the loader uses it. `trained` is not a key of the
\* file: it counts the epochs of training contained in model_state_dict.
EpochField(kind, val) == [kind |-> kind, val |-> val]
NoEpoch == EpochField("absent", 0)
BadEpoch == EpochField("bad", 0)         \* a value for which `+ 1` raises
IntEpoch(n) == EpochField("int", n)

Bundle(m, o, e, l, t) ==
    [model |-> m, optim |-> o, epoch |-> e, loss |-> l, trained |-> t]

StoredEpochs == {NoEpoch, BadEpoch} \cup {IntEpoch(n) : n \in -1..MaxStoredEpoch}

\* Files that were on disk before the program ran: any combination of keys.
FoundBundles ==
    {Bundle(m, o, e, l, IF e.kind = "int" THEN e.val + 1 ELSE 0) :
        m \in {"absent", "ok", "mismatch"},
        o \in {"absent", "ok", "bad"},
        e \in StoredEpochs,
        l \in {"absent", "ok", "bad"}}

EmptyBundle == Bundle("absent", "absent", NoEpoch, "absent", 0)

----------------------------------------------------------------------------
\* load_checkpoint_for_resumption

\* `checkpoint_path and os.path.exists(checkpoint_path)`
PathGiven(kind) == kind = "path"
ShouldLoad(kind, exists) == PathGiven(kind) /\ exists

\* The first statement of the try block that raises, "none" if none does.
FirstRaise(readable, ck) ==
    IF ~readable THEN "torch_load"
    ELSE IF ck.model = "mismatch" THEN "model_state_dict"
    ELSE IF ck.optim = "bad" THEN "optimizer_state_dict"
    ELSE IF ck.epoch.kind = "bad" THEN "epoch"
    ELSE IF ck.loss = "bad" THEN "loss"
    ELSE "none"

StepIndex(step) ==
    CASE step = "torch_load" -> 1
      [] step = "model_state_dict" -> 2
      [] step = "optimizer_state_dict" -> 3
      [] step = "epoch" -> 4
      [] step = "loss" -> 5
      [] step = "none" -> 6

\* The statement `step` ran to its end before anything was raised.
Completed(step, readable, ck) == StepIndex(step) < StepIndex(FirstRaise(readable, ck))

\* mutant of ModelAfterLoad: the weights are put back when a later step raises
ModelAfterLoad_Rollback(readable, ck, m) ==
    IF FirstRaise(readable, ck) = "none" /\ ck.model = "ok"
        THEN [src |-> "ckpt", trained |-> ck.trained]
    ELSE m

\* model.load_state_dict(checkpoint['model_state_dict'])
ModelAfterLoad(readable, ck, m) ==
    IF Completed("torch_load", readable, ck) /\ ck.model = "ok"
        THEN [src |-> "ckpt", trained |-> ck.trained]
    ELSE IF Completed("torch_load", readable, ck) /\ ck.model = "mismatch"
        \* load_state_dict copies the tensors that fit before it raises
        THEN [src |-> "partial", trained |-> m.trained]
    ELSE m

\* optimizer.load_state_dict(checkpoint['optimizer_state_dict'])
OptimAfterLoad(readable, ck, o) ==
    IF Completed("model_state_dict", readable, ck) /\ ck.optim = "ok"
        THEN "ckpt"
    ELSE o

\* mutants of EpochAfterTry: the stored epoch taken as the start epoch, and a
\* default of 1 when the epoch key is missing
EpochAfterTry_NoIncrement(readable, ck) ==
    IF Completed("optimizer_state_dict", readable, ck) /\ ck.epoch.kind = "int"
        THEN ck.epoch.val
    ELSE 0
EpochAfterTry_DefaultOne(readable, ck) ==
    IF Completed("optimizer_state_dict", readable, ck) /\ ck.epoch.kind = "int"
        THEN ck.epoch.val + 1
    ELSE 1

\* start_epoch as the try block leaves it: 0, or checkpoint['epoch'] + 1
EpochAfterTry(readable, ck) ==
    IF Completed("optimizer_state_dict", readable, ck) /\ ck.epoch.kind = "int"
        THEN ck.epoch.val + 1
    ELSE 0

\* mutant of HandlerCatches: a handler around torch.load and the optimizer only
HandlerCatches_NotModel(exc) == exc \notin {"none", "model_state_dict"}

\* `except Exception as e`: every exception raised in the try block is caught
HandlerCatches(exc) == exc # "none"

\* mutant of EpochAfterHandler: the handler keeps what the try block had assigned
EpochAfterHandler_Keep(tried) == tried

\* the handler's `start_epoch = 0`
EpochAfterHandler(tried) == 0

\* mutant of NotFoundWarning: the warning is logged whenever nothing is loaded
NotFoundWarning_Always(kind) == TRUE

\* the else branch: `if checkpoint_path: logger.warning(...)`
NotFoundWarning(kind) == PathGiven(kind)

LoaderResult(se, m, o, exc, prop, warned) ==
    [start_epoch |-> se, model |-> m, optim |-> o, exc |-> exc,
     propagated |-> prop, not_found_warning |-> warned]

load_checkpoint_for_resumption(kind, exists, readable, ck, m, o) ==
    IF ShouldLoad(kind, exists)
    THEN LET exc == FirstRaise(readable, ck)
             caught == HandlerCatches(exc)
         IN LoaderResult(
                IF exc = "none" THEN EpochAfterTry(readable, ck)
                ELSE IF caught THEN EpochAfterHandler(EpochAfterTry(readable, ck))
                ELSE 0,
                ModelAfterLoad(readable, ck, m),
                OptimAfterLoad(readable, ck, o),
                exc,
                exc # "none" /\ ~caught,
                FALSE)
    ELSE LoaderResult(0, m, o, "none", FALSE, NotFoundWarning(kind))

----------------------------------------------------------------------------
\* ResumeTrainer

\* remaining_epochs = original_num_epochs - self.current_epoch
remaining_epochs(original_num_epochs, current_epoch) ==
    original_num_epochs - current_epoch

\* mutant of NoEpochsRemaining: `<` for `<=`
NoEpochsRemaining_Strict(remaining) == remaining < 0

\* `if remaining_epochs <= 0`
NoEpochsRemaining(remaining) == remaining <= 0

\* mutant of adjusted_epoch: the offset is left out
adjusted_epoch_NoOffset(epoch, current_epoch) == epoch

\* adjusted_epoch = epoch + self.current_epoch if epoch is not None else None
adjusted_epoch(epoch, current_epoch) ==
    IF epoch # None THEN Some(epoch[1] + current_epoch) ELSE None

\* mutant of RewritesPath: the path is rebuilt whatever output_dir is
RewritesPath_NoDirCheck(epoch, output_dir) == epoch # None

\* `if epoch is not None and self.trainer.output_dir`
RewritesPath(epoch, output_dir) == epoch # None /\ Truthy(output_dir)

\* mutant of adjusted_path: the file is named after the trainer's own index
adjusted_path_InnerIndex(path, epoch, current_epoch, output_dir) ==
    IF RewritesPath(epoch, output_dir)
        THEN CheckpointEpochPath(output_dir, epoch[1])
    ELSE path

\* the path adjusted_save_checkpoint hands to the original function
adjusted_path(path, epoch, current_epoch, output_dir) ==
    IF RewritesPath(epoch, output_dir)
        THEN CheckpointEpochPath(output_dir, adjusted_epoch(epoch, current_epoch)[1])
    ELSE path

\* lines 485-489 raise before original_save_checkpoint is called
InterceptorRaises(epoch, output_dir) ==
    RewritesPath(epoch, output_dir) /\ JoinRaises(output_dir)

\* mutant of adjusted_save_checkpoint: the keyword arguments are not passed on
adjusted_save_checkpoint_DropKwargs(path, epoch, kwargs, current_epoch, output_dir) ==
    [path |-> adjusted_path(path, epoch, current_epoch, output_dir),
     epoch |-> adjusted_epoch(epoch, current_epoch),
     kwargs |-> <<>>,
     raises |-> InterceptorRaises(epoch, output_dir)]

\* adjusted_save_checkpoint(path, epoch=None, **kwargs): the arguments of the
\* call of original_save_checkpoint it makes, or that it raises before
adjusted_save_checkpoint(path, epoch, kwargs, current_epoch, output_dir) ==
    [path |-> adjusted_path(path, epoch, current_epoch, output_dir),
     epoch |-> adjusted_epoch(epoch, current_epoch),
     kwargs |-> kwargs,
     raises |-> InterceptorRaises(epoch, output_dir)]

\* self.trainer.save_checkpoint(path, epoch, **kwargs) as the wrapped trainer
\* calls it: through the interceptor when it is installed
Dispatch(save_checkpoint, path, epoch, kwargs, current_epoch, output_dir) ==
    IF save_checkpoint = "adjusted"
        THEN adjusted_save_checkpoint(path, epoch, kwargs, current_epoch, output_dir)
    ELSE [path |-> path, epoch |-> epoch, kwargs |-> kwargs, raises |-> FALSE]

\* the bundle the trainer's own save_checkpoint writes
SavedBundle(epoch, trained) ==
    Bundle("ok", "ok", IF epoch = None THEN NoEpoch ELSE IntEpoch(epoch[1]), "ok", trained)

\* a file written at `path` replaces the file that was there
WriteFile(d, path, ck, by) ==
    {f \in d : f.path # path} \cup {[path |-> path, ck |-> ck, by |-> by]}

----------------------------------------------------------------------------
\* State

FreshModel == [src |-> "init", trained |-> 0]

NoLoad ==
    [called |-> FALSE, kind |-> "None", exists |-> FALSE, readable |-> FALSE,
     ck |-> EmptyBundle, model_before |-> FreshModel, optim_before |-> "init",
     res |-> LoaderResult(0, FreshModel, "init", "none", FALSE, FALSE)]

\* path_style and save_kwargs: how this trainer's code calls save_checkpoint
NoTrainer ==
    [num_epochs |-> 0, save_checkpoint |-> "original", output_dir |-> "",
     path_style |-> "epoch", save_kwargs |-> <<>>]
TrainerStyles == [path_style : {"epoch", "custom"}, save_kwargs : KwargsSet]
NewTrainer(n, dir, style) ==
    [num_epochs |-> n, save_checkpoint |-> "original", output_dir |-> dir,
     path_style |-> style.path_style, save_kwargs |-> style.save_kwargs]
NoWrapper ==
    [current_epoch |-> 0, original_num_epochs |-> 0, original_save_checkpoint |-> "unset"]

\* no exception yet
NoException == [thrown |-> "none", out |-> "none"]

\* symbolic_prompts: the prompts attempted so far and how many raised
NoGeneration == [i |-> 0, failed |-> FALSE]

\* test_prompts x [5, 10, 20]: the prompt and length the loops are at, the
\* generations attempted so far, whether one of them raised
NoInterp == [p |-> 1, l |-> 1, attempted |-> {}, failed |-> FALSE]

NoArgs ==
    [num_epochs |-> 0, resume |-> [kind |-> "None", path |-> MissingPath]]

\* --resume_from_checkpoint: not given, the empty string, or a path
ResumeChoices(d) ==
    {[kind |-> "None", path |-> MissingPath], [kind |-> "empty", path |-> MissingPath]}
    \cup {[kind |-> "path", path |-> q] : q \in {MissingPath, ForeignPath} \cup {f.path : f \in d}}

ArgsChoices(d) ==
    [num_epochs : 0..MaxEpochs, resume : ResumeChoices(d)]

\* A new process: everything but the files on disk starts afresh.
ProcessStart(md, a, d, n) ==
    /\ mode = md
    /\ pc = "start"
    /\ args = a
    /\ stdout = "orig"
    /\ tee_file = "none"
    /\ exit_kind = "none"
    /\ model_w = FreshModel
    /\ optim_w = "init"
    /\ start_epoch = 0
    /\ ld = NoLoad
    /\ trainer = NoTrainer
    /\ rt = NoWrapper
    /\ pre = NoTrainer
    /\ inner_i = 0
    /\ inner_invoked = FALSE
    /\ calls = <<>>
    /\ result = NoResult
    /\ disk = d
    /\ runs = n
    /\ left_at = "none"
    /\ train_exc = NoException
    /\ events = <<>>
    /\ gen = NoGeneration
    /\ it = NoInterp

Init == \E a \in ArgsChoices({}) : ProcessStart("main", a, {}, 1)

\* The first of several runs: nothing to resume from yet.
FirstRunArgs == {a \in ArgsChoices({}) : a.resume.kind = "None"}
InitRuns == \E a \in FirstRunArgs : ProcessStart("runs", a, {}, 1)

\* A later run resumes from a file an earlier run wrote.
LaterRunArgs(d) == {a \in ArgsChoices(d) : a.resume.path \in {f.path : f \in d}}

\* A ResumeTrainer built directly around a trainer: ResumeTrainer(trainer, S)
InitWrapper ==
    \E T \in 0..MaxTotal, S \in 0..MaxStart, dir \in {"", NoneDir, OutputDir},
       style \in TrainerStyles :
        /\ dir = NoneDir => style.path_style = "custom"
        /\ mode = "harness"
        /\ pc = "rt_train"
        /\ args = NoArgs
        /\ stdout = "orig"
        /\ tee_file = "none"
        /\ exit_kind = "none"
        /\ model_w = [src |-> "init", trained |-> S]
        /\ optim_w = "init"
        /\ start_epoch = S
        /\ ld = NoLoad
        /\ trainer = NewTrainer(T, dir, style)
        /\ rt = [NoWrapper EXCEPT !.current_epoch = S]
        /\ pre = NoTrainer
        /\ inner_i = 0
        /\ inner_invoked = FALSE
        /\ calls = <<>>
        /\ result = NoResult
        /\ disk = {}
        /\ runs = 0
        /\ left_at = "none"
        /\ train_exc = NoException
        /\ events = <<>>
        /\ gen = NoGeneration
        /\ it = NoInterp

Terminal == pc \in {"done", "failed", "exited"}

----------------------------------------------------------------------------
\* main()

\* lines 506-513: parse_args, setup_logging, sys.stdout = tee_output
MainSetupLogging ==
    /\ pc = "start"
    /\ tee_file' = "open"
    /\ stdout' = "tee"
    /\ pc' = "body"
    /\ UNCHANGED <<mode, args, exit_kind, left_at, model_w, optim_w, start_epoch, ld, trainer,
                   rt, pre, inner_i, inner_invoked, calls, result, disk, runs>>
    /\ UNCHANGED <<train_exc, events, gen, it>>

\* an exception, or SystemExit, leaves the try block for the finally block
Leave(kind) ==
    /\ exit_kind' = kind
    /\ left_at' = pc
    /\ pc' = "finally"

\* lines 516-658: device, config, tokenizer, model, data, optimizer.
\* sys.exit(1) when no text column is found; any call may raise.
MainBody ==
    /\ pc = "body"
    /\ \/ /\ pc' = "load"
          /\ events' = Append(events, "optimizer")
          /\ UNCHANGED <<exit_kind, left_at>>
       \/ Leave("sysexit") /\ UNCHANGED events
       \/ Leave("exception") /\ UNCHANGED events
    /\ UNCHANGED <<mode, args, stdout, tee_file, model_w, optim_w, start_epoch, ld,
                   trainer, rt, pre, inner_i, inner_invoked, calls, result, disk, runs>>
    /\ UNCHANGED <<train_exc, gen, it>>

\* what the path given on the command line holds
FileAt(d, path) == {f \in d : f.path = path}

\* what the call of the loader adds to the run's history: the file is read
\* only when a path was given and exists
LoadEvents(kind, exists, res) ==
    (IF ShouldLoad(kind, exists) THEN <<"file_read">> ELSE <<>>)
    \o (IF res.exc # "none" THEN <<"load_error">> ELSE <<>>)

\* lines 660-663: start_epoch = load_checkpoint_for_resumption(...)
MainLoadCheckpoint ==
    /\ pc = "load"
    /\ \E exists \in BOOLEAN, readable \in BOOLEAN, ck \in FoundBundles \cup {f.ck : f \in disk} :
        /\ exists = (args.resume.kind = "path"
                        /\ (args.resume.path = ForeignPath \/ FileAt(disk, args.resume.path) # {}))
        /\ IF exists /\ args.resume.path # ForeignPath
              THEN readable /\ ck \in {f.ck : f \in FileAt(disk, args.resume.path)}
              ELSE IF exists THEN (readable /\ ck \in FoundBundles) \/ (~readable /\ ck = EmptyBundle)
              ELSE ~readable /\ ck = EmptyBundle
        /\ LET res == load_checkpoint_for_resumption(args.resume.kind, exists, readable,
                                                     ck, model_w, optim_w)
           IN /\ ld' = [called |-> TRUE, kind |-> args.resume.kind, exists |-> exists,
                        readable |-> readable, ck |-> ck, model_before |-> model_w,
                        optim_before |-> optim_w, res |-> res]
              /\ events' = events \o LoadEvents(args.resume.kind, exists, res)
              /\ model_w' = res.model
              /\ optim_w' = res.optim
              /\ IF res.propagated
                    THEN Leave("exception") /\ UNCHANGED start_epoch
                    ELSE /\ start_epoch' = res.start_epoch
                         /\ pc' = "make_trainer"
                         /\ UNCHANGED <<exit_kind, left_at>>
    /\ UNCHANGED <<mode, args, stdout, tee_file, trainer, rt, pre, inner_i,
                   inner_invoked, calls, result, disk, runs>>
    /\ UNCHANGED <<train_exc, gen, it>>

\* lines 665-681: get_trainer(num_epochs=config.num_epochs, output_dir=args.output_dir),
\* ResumeTrainer(trainer, start_epoch)
MainMakeTrainer ==
    /\ pc = "make_trainer"
    /\ \/ /\ \E style \in TrainerStyles :
                /\ mode = "runs" => style = [path_style |-> "epoch", save_kwargs |-> <<>>]
                /\ trainer' = NewTrainer(args.num_epochs, OutputDir, style)
          /\ rt' = [NoWrapper EXCEPT !.current_epoch = start_epoch]
          /\ pc' = "rt_train"
          /\ UNCHANGED <<exit_kind, left_at>>
       \/ Leave("exception") /\ UNCHANGED <<trainer, rt>>
    /\ ld' = NoLoad
    /\ UNCHANGED <<mode, args, stdout, tee_file, model_w, optim_w, start_epoch, pre,
                   inner_i, inner_invoked, calls, result, disk, runs>>
    /\ UNCHANGED <<train_exc, events, gen, it>>

----------------------------------------------------------------------------
\* ResumeTrainer.train() and the wrapped trainer's train()

\* mutant of AfterReturn: main() goes on without the final save
AfterReturn_SkipSave == IF mode = "harness" THEN "returned" ELSE "generate"

\* where control goes when ResumeTrainer.train() returns
AfterReturn == IF mode = "harness" THEN "returned" ELSE "save_final"

\* lines 465-495: up to the call of self.trainer.train()
TrainBegin ==
    /\ pc = "rt_train"
    /\ pre' = trainer
    /\ events' = events \o
            (IF NoEpochsRemaining(remaining_epochs(trainer.num_epochs, rt.current_epoch))
                THEN <<"train", "train_returned">> ELSE <<"train">>)
    /\ LET original_num_epochs == trainer.num_epochs
           remaining == remaining_epochs(original_num_epochs, rt.current_epoch)
       IN IF NoEpochsRemaining(remaining)
          THEN /\ result' = ZeroResult
               /\ pc' = AfterReturn
               /\ rt' = [rt EXCEPT !.original_num_epochs = original_num_epochs]
               /\ UNCHANGED <<trainer, inner_i, inner_invoked>>
          ELSE /\ trainer' = [trainer EXCEPT !.num_epochs = remaining,
                                             !.save_checkpoint = "adjusted"]
               /\ rt' = [rt EXCEPT !.original_num_epochs = original_num_epochs,
                                   !.original_save_checkpoint = trainer.save_checkpoint]
               /\ inner_i' = 0
               /\ inner_invoked' = TRUE
               /\ pc' = "inner"
               /\ UNCHANGED result
    /\ UNCHANGED <<mode, args, stdout, tee_file, exit_kind, left_at, model_w, optim_w,
                   start_epoch, ld, calls, disk, runs>>
    /\ UNCHANGED <<train_exc, gen, it>>

\* the path the wrapped trainer passes for its epoch i
CallerPath(t, i) ==
    IF t.path_style = "epoch" THEN CheckpointEpochPath(t.output_dir, i)
    ELSE CustomPath(t.output_dir)

\* what the wrapped trainer does at the end of an epoch: no checkpoint,
\* save_checkpoint(path, epoch, ...) or save_checkpoint(path, ...); the trainer
\* of the repeated runs always passes the epoch when it saves
SaveChoices ==
    IF mode = "runs" THEN {"no_save", "save_epoch"}
    ELSE {"no_save", "save_epoch", "save_none"}

\* exceptions the wrapped trainer's train() may raise
TrainerExceptions == {"RuntimeError", "KeyboardInterrupt"}

\* an exception leaves ResumeTrainer.train(): to the caller of the wrapper on
\* its own, out of the try block of main() otherwise
RaiseOut ==
    IF mode = "harness" THEN pc' = "raised" /\ UNCHANGED <<exit_kind, left_at>>
    ELSE Leave("exception")

\* line 495: self.trainer.train() is called outside any try statement; the
\* exception that leaves ResumeTrainer.train() is the one raised
ExceptionOut(e) == e

\* mutant of TrainerOnRaise: the original values are put back on the way out
TrainerOnRaise_Restores(t, r) ==
    [t EXCEPT !.num_epochs = r.original_num_epochs,
              !.save_checkpoint = r.original_save_checkpoint]

\* lines 495-499: no try/finally; when train() raises, lines 498-499 are not
\* reached and the trainer is left as it is
TrainerOnRaise(t, r) == t

\* one epoch of the wrapped trainer's loop, which may call
\* self.save_checkpoint(path, epoch, **kwargs) or self.save_checkpoint(path, **kwargs)
InnerEpoch ==
    /\ pc = "inner"
    /\ inner_i < trainer.num_epochs
    /\ model_w' = [src |-> "trained", trained |-> model_w.trained + 1]
    /\ optim_w' = "stepped"
    /\ inner_i' = inner_i + 1
    /\ \E how \in SaveChoices :
        IF how = "no_save"
        THEN UNCHANGED <<calls, disk, pc, exit_kind, left_at, train_exc, trainer>>
        ELSE LET epoch == IF how = "save_epoch" THEN Some(inner_i) ELSE None
                 path == CallerPath(trainer, inner_i)
                 c == Dispatch(trainer.save_checkpoint, path, epoch, trainer.save_kwargs,
                               rt.current_epoch, trainer.output_dir)
             IN IF c.raises
                THEN /\ train_exc' = [thrown |-> "none", out |-> "TypeError"]
                     /\ trainer' = TrainerOnRaise(trainer, rt)
                     /\ RaiseOut
                     /\ UNCHANGED <<calls, disk>>
                ELSE /\ calls' = Append(calls,
                            [path |-> c.path, epoch |-> c.epoch, kwargs |-> c.kwargs,
                             inner |-> inner_i, caller_path |-> path, caller_epoch |-> epoch,
                             caller_kwargs |-> trainer.save_kwargs,
                             num_epochs |-> trainer.num_epochs])
                     /\ disk' = WriteFile(disk, c.path, SavedBundle(c.epoch, model_w.trained + 1),
                                          IF trainer.save_checkpoint = "adjusted"
                                             THEN "wrapper" ELSE "trainer")
                     /\ UNCHANGED <<pc, exit_kind, left_at, train_exc, trainer>>
    /\ UNCHANGED <<mode, args, stdout, tee_file, start_epoch,
                   ld, rt, pre, inner_invoked, result, runs>>
    /\ UNCHANGED <<events, gen, it>>

\* the wrapped trainer's train() raises; ResumeTrainer.train() has no handler
InnerRaise ==
    /\ pc = "inner"
    /\ \E e \in TrainerExceptions :
        train_exc' = [thrown |-> e, out |-> ExceptionOut(e)]
    /\ trainer' = TrainerOnRaise(trainer, rt)
    /\ RaiseOut
    /\ UNCHANGED <<mode, args, stdout, tee_file, model_w, optim_w, start_epoch, ld,
                   rt, pre, inner_i, inner_invoked, calls, result, disk, runs>>
    /\ UNCHANGED <<events, gen, it>>

\* mutant of TrainEnd: num_epochs is not put back
TrainEnd_NoRestore ==
    /\ pc = "inner"
    /\ inner_i >= trainer.num_epochs
    /\ result' = InnerResult
    /\ events' = Append(events, "train_returned")
    /\ trainer' = [trainer EXCEPT !.save_checkpoint = rt.original_save_checkpoint]
    /\ pc' = AfterReturn
    /\ UNCHANGED <<mode, args, stdout, tee_file, exit_kind, left_at, model_w, optim_w,
                   start_epoch, ld, rt, pre, inner_i, inner_invoked, calls, disk, runs>>
    /\ UNCHANGED <<train_exc, gen, it>>

\* lines 495-501: self.trainer.train() returns, the original values are put back
TrainEnd ==
    /\ pc = "inner"
    /\ inner_i >= trainer.num_epochs
    /\ result' = InnerResult
    /\ events' = Append(events, "train_returned")
    /\ trainer' = [trainer EXCEPT !.num_epochs = rt.original_num_epochs,
                                  !.save_checkpoint = rt.original_save_checkpoint]
    /\ pc' = AfterReturn
    /\ UNCHANGED <<mode, args, stdout, tee_file, exit_kind, left_at, model_w, optim_w,
                   start_epoch, ld, rt, pre, inner_i, inner_invoked, calls, disk, runs>>
    /\ UNCHANGED <<train_exc, gen, it>>

----------------------------------------------------------------------------
\* main(), after training

\* 'epoch': config.num_epochs
final_epoch_field(num_epochs) == num_epochs

\* lines 690-706: save_dict and torch.save(save_dict, model_path)
MainSaveFinal ==
    /\ pc = "save_final"
    /\ \/ /\ disk' = WriteFile(disk, ModelPath(OutputDir),
                        Bundle("ok", "ok", IntEpoch(final_epoch_field(args.num_epochs)),
                               "absent", model_w.trained),
                        "main")
          /\ events' = Append(events, "final_save")
          /\ pc' = "generate"
          /\ UNCHANGED <<exit_kind, left_at>>
       \/ Leave("exception") /\ UNCHANGED <<disk, events>>
    /\ UNCHANGED <<mode, args, stdout, tee_file, model_w, optim_w, start_epoch, ld,
                   trainer, rt, pre, inner_i, inner_invoked, calls, result, runs>>
    /\ UNCHANGED <<train_exc, gen, it>>

\* symbolic_prompts of main, test_prompts and the generation lengths of
\* test_symbolic_interpretability
symbolic_prompts ==
    <<"The door was locked.  Tim had a key to the door.  Tim used ",
      "The brave knight", "Spotty loved the sun", "The bird saw a shiny">>
test_prompts ==
    <<"Max went to", "The key opens the door. Sarah has the key. Sarah can",
      "Rain makes things wet. It is raining. The ground is">>
gen_lens == <<5, 10, 20>>

\* --skip_generation and --test_generation; the runs that are repeated are
\* started with --skip_generation and without --test_generation
SkipGenerationFlags == IF mode = "runs" THEN {TRUE} ELSE BOOLEAN
TestGenerationFlags == IF mode = "runs" THEN {FALSE} ELSE BOOLEAN

\* lines 708-721: `if not args.skip_generation`, model.eval()
MainGenerate ==
    /\ pc = "generate"
    /\ \E skip_generation \in SkipGenerationFlags :
        \/ /\ skip_generation
           /\ pc' = "interp"
           /\ UNCHANGED <<exit_kind, left_at, events, gen>>
        \/ /\ ~skip_generation
           /\ pc' = "gen_prompt"
           /\ gen' = NoGeneration
           /\ events' = Append(events, "generation")
           /\ UNCHANGED <<exit_kind, left_at>>
        \/ /\ ~skip_generation
           /\ Leave("exception")
           /\ UNCHANGED <<events, gen>>
    /\ UNCHANGED <<mode, args, stdout, tee_file, model_w, optim_w, start_epoch, ld,
                   trainer, rt, pre, inner_i, inner_invoked, calls, result, disk, runs, train_exc>>
    /\ UNCHANGED it

\* mutant of GenerationErrorCaught: run_generation called without a handler
GenerationErrorCaught_Not == FALSE

\* lines 724-737: `try: run_generation(...) except Exception as e: logger.error`
GenerationErrorCaught == TRUE

\* lines 722-737: one prompt of `for i, prompt in enumerate(symbolic_prompts)`
MainGeneratePrompt ==
    /\ pc = "gen_prompt"
    /\ gen.i < Len(symbolic_prompts)
    /\ \E outcome \in {"ok", "error"} :
        IF outcome = "error" /\ ~GenerationErrorCaught
        THEN Leave("exception") /\ UNCHANGED gen
        ELSE /\ gen' = [i |-> gen.i + 1,
                        failed |-> gen.failed \/ outcome = "error"]
             /\ pc' = IF gen.i + 1 = Len(symbolic_prompts) THEN "interp" ELSE "gen_prompt"
             /\ UNCHANGED <<exit_kind, left_at>>
    /\ UNCHANGED <<mode, args, stdout, tee_file, model_w, optim_w, start_epoch, ld,
                   trainer, rt, pre, inner_i, inner_invoked, calls, result, disk, runs, train_exc>>
    /\ UNCHANGED <<events, it>>

\* lines 739-741 and 130-153: `if args.test_generation`, the call of
\* test_symbolic_interpretability, the log file opened and its header written
MainInterp ==
    /\ pc = "interp"
    /\ \E test_generation \in TestGenerationFlags :
        \/ /\ ~test_generation
           /\ pc' = "epilogue"
           /\ UNCHANGED <<exit_kind, left_at, events, it>>
        \/ /\ test_generation
           /\ pc' = "it_prompt"
           /\ it' = NoInterp
           /\ events' = Append(events, "interp")
           /\ UNCHANGED <<exit_kind, left_at>>
        \/ /\ test_generation
           /\ Leave("exception")
           /\ UNCHANGED <<events, it>>
    /\ UNCHANGED <<mode, args, stdout, tee_file, model_w, optim_w, start_epoch, ld,
                   trainer, rt, pre, inner_i, inner_invoked, calls, result, disk, runs, train_exc>>
    /\ UNCHANGED gen

\* lines 155-168: the head of `for i, prompt in enumerate(test_prompts)`; the
\* prompt is tokenized and the transcript written outside any handler
InterpPrompt ==
    /\ pc = "it_prompt"
    /\ \/ /\ it' = [it EXCEPT !.l = 1]
          /\ pc' = "it_len"
          /\ UNCHANGED <<exit_kind, left_at>>
       \/ Leave("exception") /\ UNCHANGED it
    /\ UNCHANGED <<mode, args, stdout, tee_file, model_w, optim_w, start_epoch, ld,
                   trainer, rt, pre, inner_i, inner_invoked, calls, result, disk, runs, train_exc>>
    /\ UNCHANGED <<events, gen>>

\* mutant of AfterGenerationError: the handler leaves the loop over the lengths
AfterGenerationError_Break(l) == Len(gen_lens) + 1

\* lines 201-204: the handler logs the error; the loop goes on with the next length
AfterGenerationError(l) == l + 1

\* lines 171-206: one length of `for gen_len in [5, 10, 20]`: model.generate,
\* decoding and analysis inside try/except Exception; after the last length
\* the loop over the prompts goes on
InterpLength ==
    /\ pc = "it_len"
    /\ it.l <= Len(gen_lens)
    /\ \E outcome \in {"ok", "error"} :
        LET l2 == IF outcome = "error" THEN AfterGenerationError(it.l) ELSE it.l + 1
            last == l2 > Len(gen_lens)
        IN /\ it' = [p |-> IF last /\ it.p < Len(test_prompts) THEN it.p + 1 ELSE it.p,
                     l |-> IF last THEN 1 ELSE l2,
                     attempted |-> it.attempted \cup {<<it.p, gen_lens[it.l]>>},
                     failed |-> it.failed \/ outcome = "error"]
           /\ pc' = IF ~last THEN "it_len"
                    ELSE IF it.p < Len(test_prompts) THEN "it_prompt"
                    ELSE "it_end"
    /\ UNCHANGED <<mode, args, stdout, tee_file, model_w, optim_w, start_epoch, ld,
                   trainer, rt, pre, inner_i, inner_invoked, calls, result, disk, runs, train_exc>>
    /\ UNCHANGED <<exit_kind, left_at, events, gen>>

\* line 208 and the return to main
InterpEnd ==
    /\ pc = "it_end"
    /\ pc' = "epilogue"
    /\ events' = Append(events, "interp_returned")
    /\ UNCHANGED <<mode, args, stdout, tee_file, model_w, optim_w, start_epoch, ld,
                   trainer, rt, pre, inner_i, inner_invoked, calls, result, disk, runs, train_exc>>
    /\ UNCHANGED <<exit_kind, left_at, gen, it>>

\* lines 743-753: the closing banner; the try block ends
MainEpilogue ==
    /\ pc = "epilogue"
    /\ Leave("normal")
    /\ UNCHANGED <<mode, args, stdout, tee_file, model_w, optim_w, start_epoch, ld,
                   trainer, rt, pre, inner_i, inner_invoked, calls, result, disk, runs, train_exc>>
    /\ UNCHANGED <<events, gen, it>>

\* TeeOutput.close(): `if hasattr(self, 'file') and self.file: self.file.close()`
TeeClose(file) == IF file = "open" THEN "closed" ELSE file

\* mutant of MainFinally: the cleanup at the end of the try block instead of
\* in a finally block
MainFinally_OnlyNormal ==
    /\ pc = "finally"
    /\ stdout' = IF exit_kind = "normal" THEN "orig" ELSE stdout
    /\ tee_file' = IF exit_kind = "normal" THEN TeeClose(tee_file) ELSE tee_file
    /\ pc' = CASE exit_kind = "normal" -> "done"
               [] exit_kind = "sysexit" -> "exited"
               [] OTHER -> "failed"
    /\ UNCHANGED <<mode, args, exit_kind, left_at, model_w, optim_w, start_epoch, ld, trainer,
                   rt, pre, inner_i, inner_invoked, calls, result, disk, runs>>
    /\ UNCHANGED <<train_exc, events, gen, it>>

\* lines 755-758: the finally block, then the process ends the way the try
\* block was left
MainFinally ==
    /\ pc = "finally"
    /\ stdout' = "orig"
    /\ tee_file' = TeeClose(tee_file)
    /\ pc' = CASE exit_kind = "normal" -> "done"
               [] exit_kind = "sysexit" -> "exited"
               [] OTHER -> "failed"
    /\ UNCHANGED <<mode, args, exit_kind, left_at, model_w, optim_w, start_epoch, ld, trainer,
                   rt, pre, inner_i, inner_invoked, calls, result, disk, runs>>
    /\ UNCHANGED <<train_exc, events, gen, it>>

\* the script is started again, with the files the earlier runs left
NewRun ==
    /\ Terminal
    /\ mode = "runs"
    /\ runs < MaxRuns
    /\ \E a \in LaterRunArgs(disk) :
        /\ args' = a
        /\ pc' = "start"
        /\ stdout' = "orig"
        /\ tee_file' = "none"
        /\ exit_kind' = "none"
        /\ model_w' = FreshModel
        /\ optim_w' = "init"
        /\ start_epoch' = 0
        /\ ld' = NoLoad
        /\ trainer' = NoTrainer
        /\ rt' = NoWrapper
        /\ pre' = NoTrainer
        /\ inner_i' = 0
        /\ inner_invoked' = FALSE
        /\ calls' = <<>>
        /\ result' = NoResult
        /\ runs' = runs + 1
        /\ left_at' = "none"
        /\ train_exc' = NoException
        /\ events' = <<>>
        /\ gen' = NoGeneration
        /\ it' = NoInterp
    /\ UNCHANGED <<mode, disk>>

----------------------------------------------------------------------------
\* Specifications

Next ==
    \/ MainSetupLogging
    \/ MainBody
    \/ MainLoadCheckpoint
    \/ MainMakeTrainer
    \/ TrainBegin
    \/ InnerEpoch
    \/ InnerRaise
    \/ TrainEnd
    \/ MainSaveFinal
    \/ MainGenerate
    \/ MainGeneratePrompt
    \/ MainInterp
    \/ InterpPrompt
    \/ InterpLength
    \/ InterpEnd
    \/ MainEpilogue
    \/ MainFinally

Spec == Init /\ [][Next]_vars

NextRuns ==
    \/ MainSetupLogging
    \/ MainBody
    \/ MainLoadCheckpoint
    \/ MainMakeTrainer
    \/ TrainBegin
    \/ InnerEpoch
    \/ InnerRaise
    \/ TrainEnd
    \/ MainSaveFinal
    \/ MainGenerate
    \/ MainInterp
    \/ MainEpilogue
    \/ MainFinally
    \/ NewRun

SpecRuns == InitRuns /\ [][NextRuns]_vars

NextWrapper ==
    \/ TrainBegin
    \/ InnerEpoch
    \/ InnerRaise
    \/ TrainEnd

SpecWrapper == InitWrapper /\ [][NextWrapper]_vars

----------------------------------------------------------------------------
\* Properties of ResumeTrainer.train() (checked under SpecWrapper)

\* ResumeTrainer.train() has been entered with total T and start epoch S
Entered == pc \in {"inner", "returned", "raised"}
TotalT == pre.num_epochs
StartS == rt.current_epoch

\* the calls of save_checkpoint the wrapped trainer made with an epoch index
EpochCalls == {k \in DOMAIN calls : calls[k].caller_epoch # None}

\* C1 (as stated): with T > S the wrapped trainer runs with num_epochs = T-S,
\* runs T-S epochs when it returns, and every save_checkpoint call it makes
\* with internal epoch i reaches the original function with path
\* <output_dir>/checkpoint_epoch_{i+S}.pt and epoch i+S.
C1_AsStated ==
    (Entered /\ TotalT > StartS) =>
        /\ pc = "inner" => trainer.num_epochs = TotalT - StartS
        /\ pc = "returned" => inner_i = TotalT - StartS
        /\ \A k \in EpochCalls :
            /\ calls[k].num_epochs = TotalT - StartS
            /\ calls[k].inner \in 0..(TotalT - StartS - 1)
            /\ calls[k].epoch = Some(calls[k].inner + StartS)
            /\ calls[k].path =
                  CheckpointEpochPath(trainer.output_dir, calls[k].inner + StartS)

\* C1 (amended): the same, the path being <output_dir>/checkpoint_epoch_{i+S}.pt
\* when the trainer's output_dir is non-empty; with an empty output_dir the
\* caller's path is passed on, the epoch argument still being i+S.
C1_EpochOffset ==
    (Entered /\ TotalT > StartS) =>
        /\ pc = "inner" => trainer.num_epochs = TotalT - StartS
        /\ pc = "returned" => inner_i = TotalT - StartS
        /\ \A k \in EpochCalls :
            /\ calls[k].num_epochs = TotalT - StartS
            /\ calls[k].inner \in 0..(TotalT - StartS - 1)
            /\ calls[k].epoch = Some(calls[k].inner + StartS)
            /\ Truthy(trainer.output_dir) =>
                  calls[k].path =
                      CheckpointEpochPath(trainer.output_dir, calls[k].inner + StartS)
            /\ ~Truthy(trainer.output_dir) => calls[k].path = calls[k].caller_path

\* S = 3, T = 5: two epochs, saved as checkpoint_epoch_3.pt and checkpoint_epoch_4.pt
C1_Witness ==
    /\ pc = "returned"
    /\ TotalT = 5 /\ StartS = 3
    /\ inner_i = 2
    /\ Len(calls) = 2
    /\ calls[1].inner = 0 /\ calls[1].epoch = Some(3)
    /\ calls[1].path = CheckpointEpochPath(OutputDir, 3)
    /\ calls[2].inner = 1 /\ calls[2].epoch = Some(4)
    /\ calls[2].path = CheckpointEpochPath(OutputDir, 4)

\* C2: with start_epoch >= num_epochs, train() returns {final_loss: 0.0,
\* training_time: 0.0}; the wrapped trainer's train() is never called and no
\* save_checkpoint call is made.
C2_NoRemainingEpochs ==
    (Entered /\ StartS >= TotalT) =>
        /\ pc = "returned"
        /\ result = ZeroResult
        /\ ~inner_invoked
        /\ inner_i = 0
        /\ calls = <<>>
        /\ disk = {}

C2_Witness ==
    /\ pc = "returned"
    /\ StartS = TotalT /\ TotalT > 0
    /\ result = ZeroResult
    /\ ~inner_invoked

\* C3: when ResumeTrainer.train() has returned, after training or after the
\* short-circuit, the wrapped trainer's num_epochs and save_checkpoint are what
\* they were just before the call.
C3_Restored ==
    pc = "returned" =>
        /\ trainer.num_epochs = pre.num_epochs
        /\ trainer.save_checkpoint = pre.save_checkpoint
        /\ trainer = pre

C3_Witness ==
    /\ pc = "returned"
    /\ inner_invoked
    /\ StartS > 0
    /\ calls # <<>>
    /\ result = InnerResult
    /\ trainer.num_epochs = TotalT

----------------------------------------------------------------------------
\* Properties of load_checkpoint_for_resumption (checked under Spec, in the
\* state main() is in when the loader has returned)

\* the loader was called on a file that exists, and torch.load returned a bundle
Loaded == ld.called /\ ShouldLoad(ld.kind, ld.exists) /\ ld.readable

\* C4 (as stated): a bundle with epoch field E gives start-epoch E+1, whatever
\* its other fields are.
C4_AsStated ==
    (Loaded /\ ld.ck.epoch.kind = "int") =>
        ld.res.start_epoch = ld.ck.epoch.val + 1

\* C4 (amended): a bundle with epoch field E gives start-epoch E+1 when no
\* statement of the load raises (model state and optimizer state, where
\* present, load, and the loss, where present, formats); when one raises, the
\* start-epoch is 0.
C4_EpochPlusOne ==
    (Loaded /\ ld.ck.epoch.kind = "int") =>
        /\ ld.res.exc = "none" =>
              /\ ld.res.start_epoch = ld.ck.epoch.val + 1
              /\ start_epoch = ld.ck.epoch.val + 1
        /\ ld.res.exc # "none" =>
              /\ ld.res.start_epoch = 0
              /\ start_epoch = 0

C4_Witness ==
    /\ Loaded
    /\ ld.ck.epoch = IntEpoch(2)
    /\ ld.ck.model = "absent" /\ ld.ck.optim = "ok" /\ ld.ck.loss = "ok"
    /\ ld.res.exc = "none"
    /\ start_epoch = 3

\* C5: a bundle without an epoch field gives start-epoch 0, whether or not
\* model state and optimizer state are present and loaded.
C5_NoEpochField ==
    (Loaded /\ ld.ck.epoch.kind = "absent") =>
        /\ ld.res.start_epoch = 0
        /\ ~ld.res.propagated
        /\ start_epoch = 0

C5_Witness ==
    /\ Loaded
    /\ ld.ck.epoch.kind = "absent"
    /\ ld.ck.model = "ok" /\ ld.res.model.src = "ckpt"
    /\ ld.ck.optim = "ok" /\ ld.res.optim = "ckpt"
    /\ ld.res.exc = "none"
    /\ start_epoch = 0

\* C6: with no path, or a path that does not exist, the loader leaves model
\* and optimizer as they were, returns 0 and does not raise; the not-found
\* warning is logged only for a path that was given and not found.
C6_NothingToLoad ==
    /\ (ld.called /\ ~ShouldLoad(ld.kind, ld.exists)) =>
          /\ ld.res.model = ld.model_before /\ model_w = ld.model_before
          /\ ld.res.optim = ld.optim_before /\ optim_w = ld.optim_before
          /\ ld.res.start_epoch = 0 /\ start_epoch = 0
          /\ ld.res.exc = "none" /\ ~ld.res.propagated
          /\ pc = "make_trainer" /\ exit_kind = "none"
    /\ (ld.called /\ ld.res.not_found_warning) =>
          /\ ld.kind = "path"
          /\ ~ld.exists

C6_Witness ==
    /\ ld.called
    /\ ld.kind = "path" /\ ~ld.exists
    /\ ld.res.not_found_warning
    /\ model_w = FreshModel /\ optim_w = "init"
    /\ start_epoch = 0
    /\ pc = "make_trainer"

\* C7: an exception raised while loading an existing file is caught inside
\* the loader and does not propagate; the start-epoch returned is 0, also
\* when the epoch field had been read before the exception.
C7_ExceptionsCaught ==
    (ld.called /\ ShouldLoad(ld.kind, ld.exists) /\ ld.res.exc # "none") =>
        /\ ~ld.res.propagated
        /\ ld.res.start_epoch = 0
        /\ start_epoch = 0
        /\ pc = "make_trainer" /\ exit_kind = "none"

\* the loss field raises after epoch 2 was read
C7_Witness ==
    /\ Loaded
    /\ ld.res.exc = "loss"
    /\ ld.ck.epoch = IntEpoch(2)
    /\ EpochAfterTry(ld.readable, ld.ck) = 3
    /\ start_epoch = 0

\* C9 (as stated): a model-state entry whose shapes do not match aborts the
\* run, and nothing else in loading the model state does.
C9_AsStated ==
    ld.called =>
        ((Loaded /\ ld.ck.model = "mismatch") <=> (ld.res.propagated /\ exit_kind = "exception"))

\* C9 (amended): a model-state entry whose shapes do not match makes
\* load_state_dict raise; the loader catches the exception and the run goes
\* on from start-epoch 0. No outcome of loading the model state aborts the run.
C9_MismatchCaught ==
    /\ (Loaded /\ ld.ck.model = "mismatch") =>
          /\ ld.res.exc = "model_state_dict"
          /\ ~ld.res.propagated
          /\ start_epoch = 0
          /\ pc = "make_trainer" /\ exit_kind = "none"
    /\ ld.called => (~ld.res.propagated /\ exit_kind = "none")

C9_Witness ==
    /\ Loaded
    /\ ld.ck.model = "mismatch"
    /\ ld.ck.epoch = IntEpoch(1)
    /\ ld.res.exc = "model_state_dict"
    /\ model_w.src = "partial"
    /\ pc = "make_trainer"

----------------------------------------------------------------------------
\* Properties of main()

\* C8 (as stated): in every checkpoint the program writes with an epoch field
\* (per epoch through the resume wrapper, and the final one of main), the
\* field is the index of the last epoch the saved weights were trained for,
\* so that epoch + 1 is the first epoch not yet trained.
C8_AsStated ==
    \A f \in disk :
        (f.by \in {"wrapper", "main"} /\ f.ck.epoch.kind = "int" /\ f.ck.trained >= 1) =>
            f.ck.epoch.val = f.ck.trained - 1

\* C10: in every terminal state of main() after logging setup, sys.stdout is
\* the original stream again and the tee log file is closed.
C10_LogClosed ==
    Terminal =>
        /\ stdout = "orig"
        /\ tee_file = "closed"

\* main() left by sys.exit(1)
C10_Witness ==
    /\ pc = "exited"
    /\ exit_kind = "sysexit"
    /\ stdout = "orig"
    /\ tee_file = "closed"

----------------------------------------------------------------------------
\* C11

\* every pair of a prompt index and a generation length
AllCombinations == {<<p, gen_lens[l]>> : p \in DOMAIN test_prompts, l \in DOMAIN gen_lens}

\* the pairs that precede position (p, l) of the two nested loops
CombinationsBefore(p, l) ==
    {<<q, gen_lens[m]>> : q \in 1..(p - 1), m \in DOMAIN gen_lens}
        \cup {<<p, gen_lens[m]>> : m \in 1..(l - 1)}

InterpReturned == \E k \in DOMAIN events : events[k] = "interp_returned"

\* C11 (as stated): no exception raised at any step of handling a prompt of the
\* interpretability test leaves main(): the function always returns normally.
C11_AsStated == left_at \notin {"it_prompt", "it_len"}

\* C11: an exception raised by generation, decoding or analysis for one length
\* (inside the try block) is caught: the run is never left from that step, the
\* loops attempt every pair of prompt and length in order whatever failed
\* before, and when the function returns all pairs have been attempted.
C11_GenerationErrorsCaught ==
    /\ left_at # "it_len"
    /\ pc = "it_len" => it.attempted = CombinationsBefore(it.p, it.l)
    /\ pc = "it_prompt" => it.attempted = CombinationsBefore(it.p, 1)
    /\ (pc = "it_end" \/ InterpReturned) => it.attempted = AllCombinations

\* the function returned after a generation error, all pairs attempted
C11_Witness ==
    /\ InterpReturned
    /\ it.failed
    /\ it.attempted = AllCombinations
    /\ pc = "done"

----------------------------------------------------------------------------
\* C12

Happened(e) == \E k \in DOMAIN events : events[k] = e

\* C12 (as stated): the process exits non-zero only on a setup failure; in
\* particular never because training or a later step raised.
C12_AsStated ==
    pc \in {"failed", "exited"} => left_at \in {"body", "make_trainer"}

\* C12: the process exits non-zero on sys.exit(1) in the setup and whenever an
\* exception escapes main(); an error of the checkpoint load or of one sample
\* generation never leaves main(): after a load error main goes on to build
\* the trainer with start epoch 0, after a generation error the loop goes on
\* to the remaining prompts, and a run that ends normally has written the
\* final checkpoint.
C12_ErrorsLoggedNotFatal ==
    /\ left_at \notin {"load", "gen_prompt"}
    /\ exit_kind = "sysexit" => left_at = "body"
    /\ pc \in {"failed", "exited"} => exit_kind \in {"sysexit", "exception"}
    /\ (ld.called /\ ld.res.exc # "none") => (pc = "make_trainer" /\ start_epoch = 0)
    /\ (pc = "gen_prompt" /\ gen.failed) => gen.i < Len(symbolic_prompts)
    /\ (Happened("generation") /\ pc \notin {"generate", "gen_prompt"}
            /\ left_at # "generate") => gen.i = Len(symbolic_prompts)
    /\ pc = "done" => Happened("train_returned") /\ Happened("final_save")

\* a run that met a load error and a generation error and still ended normally
C12_Witness ==
    /\ pc = "done"
    /\ Happened("load_error")
    /\ gen.failed
    /\ gen.i = Len(symbolic_prompts)
    /\ Happened("final_save")

----------------------------------------------------------------------------
\* C14

\* the order of the steps of main()
EventOrder ==
    <<"optimizer", "file_read", "load_error", "train", "train_returned",
      "final_save", "generation", "interp", "interp_returned">>
EventRank(e) == CHOOSE k \in DOMAIN EventOrder : EventOrder[k] = e

\* C14: main() takes its steps in a fixed order (optimizer, restore, training,
\* final save, generation, interpretability test), each at most once; the
\* checkpoint file is read only when resumption was requested; the final
\* checkpoint is written only after training returned, and exactly once in a
\* run that ends normally.
C14_FixedOrder ==
    /\ \A j, k \in DOMAIN events :
            j < k => EventRank(events[j]) < EventRank(events[k])
    /\ Happened("file_read") => PathGiven(args.resume.kind)
    /\ Happened("train") => Happened("optimizer")
    /\ Happened("final_save") => Happened("train_returned")
    /\ Happened("generation") => Happened("final_save")
    /\ Happened("interp") => Happened("final_save")
    /\ pc \in {"generate", "gen_prompt", "interp", "it_prompt", "it_len", "it_end",
               "epilogue", "done"} => Happened("final_save")

\* a run that took every step
C14_Witness ==
    /\ pc = "done"
    /\ events = <<"optimizer", "file_read", "train", "train_returned", "final_save",
                  "generation", "interp", "interp_returned">>

----------------------------------------------------------------------------
\* C13

\* an exception has left ResumeTrainer.train()
Raised == pc = "raised" \/ left_at = "inner"

\* C13: an exception raised by the wrapped trainer's train() leaves
\* ResumeTrainer.train() as the same exception, and no exception ever starts
\* in the interceptor: whatever the shape of the save_checkpoint call (epoch
\* given or omitted, keyword arguments or none, output_dir set, empty or
\* None), the call reaches the original save function.
C13_PropagatesUnmodified ==
    /\ Raised => /\ train_exc.thrown \in TrainerExceptions
                 /\ train_exc.out = train_exc.thrown
    /\ ~Raised => train_exc = NoException

\* an exception left the wrapper after calls of every shape had been forwarded
C13_Witness ==
    /\ pc = "raised"
    /\ train_exc.thrown = "RuntimeError"
    /\ ~Truthy(trainer.output_dir)
    /\ \E j, k \in DOMAIN calls :
        /\ calls[j].caller_epoch = None
        /\ calls[k].caller_epoch # None
        /\ calls[k].caller_kwargs # <<>>

----------------------------------------------------------------------------
\* C15

\* C15: of a call save_checkpoint(path, epoch, **kwargs) made while the
\* interceptor is installed, the original function receives: path and None
\* unchanged when epoch is None; the caller's path and epoch i+S when epoch is
\* i and output_dir is empty; <output_dir>/checkpoint_epoch_{i+S}.pt and i+S
\* when epoch is i and output_dir is set; the keyword arguments unchanged.
C15_InterceptorCases ==
    \A k \in DOMAIN calls :
        LET c == calls[k] IN
        /\ c.kwargs = c.caller_kwargs
        /\ c.caller_epoch = None =>
                /\ c.path = c.caller_path
                /\ c.epoch = None
        /\ (c.caller_epoch # None /\ trainer.output_dir \in {"", NoneDir}) =>
                /\ c.path = c.caller_path
                /\ c.epoch = Some(c.caller_epoch[1] + rt.current_epoch)
        /\ (c.caller_epoch # None /\ trainer.output_dir \notin {"", NoneDir}) =>
                /\ c.path = CheckpointEpochPath(trainer.output_dir,
                                                c.caller_epoch[1] + rt.current_epoch)
                /\ c.epoch = Some(c.caller_epoch[1] + rt.current_epoch)

\* output_dir set: a call without epoch and a call with epoch whose path was
\* replaced, both with keyword arguments, under a non-zero start epoch
C15_Witness ==
    /\ rt.current_epoch > 0
    /\ trainer.output_dir = OutputDir
    /\ \E j, k \in DOMAIN calls :
        /\ calls[j].caller_epoch = None
        /\ calls[j].kwargs # <<>>
        /\ calls[k].caller_epoch # None
        /\ calls[k].path # calls[k].caller_path
        /\ calls[k].kwargs # <<>>

----------------------------------------------------------------------------
\* C17

\* C17: when the wrapped trainer's train() raises, the restore statements are
\* not executed: as the exception leaves ResumeTrainer.train() the trainer's
\* num_epochs is T-S and its save_checkpoint is the interceptor.
C17_NoRestoreOnRaise ==
    pc = "raised" =>
        /\ trainer.num_epochs = pre.num_epochs - rt.current_epoch
        /\ trainer.save_checkpoint = "adjusted"
        /\ rt.original_num_epochs = pre.num_epochs

\* train() raised under a non-zero start epoch
C17_Witness ==
    /\ pc = "raised"
    /\ train_exc.thrown # "none"
    /\ rt.current_epoch > 0
    /\ trainer.num_epochs # pre.num_epochs
    /\ trainer.save_checkpoint = "adjusted"

----------------------------------------------------------------------------
\* C16

\* this run loaded, without error, a per-epoch checkpoint written through the
\* wrapper whose epoch field is E (stated where the loader has just returned)
ResumedFromWrapper(E) ==
    /\ ld.called
    /\ ld.res.exc = "none"
    /\ ld.ck.epoch = IntEpoch(E)
    /\ \E f \in FileAt(disk, args.resume.path) : f.by = "wrapper" /\ f.ck = ld.ck

\* the epoch labels of the checkpoints the run has saved with an epoch, in order
Labels == [k \in 1..Cardinality(EpochCalls) |->
            LET j == CHOOSE j \in EpochCalls :
                        Cardinality({m \in EpochCalls : m < j}) = k - 1
            IN calls[j].epoch[1]]

\* C16: a run that resumes from a per-epoch checkpoint saved through the
\* wrapper with stored epoch E starts at epoch E+1; the checkpoints it saves
\* with an epoch carry the labels E+1+i for the trainer's index i, in file
\* name and epoch argument, strictly increasing and within E+1 .. T-1; when
\* the trainer saved after every epoch and training returned, the labels are
\* exactly E+1 .. T-1.
C16_ResumedLabels ==
    /\ \A E \in 0..MaxEpochs :
            (pc = "make_trainer" /\ ResumedFromWrapper(E)) => start_epoch = E + 1
    /\ (runs >= 2 /\ start_epoch >= 1 /\ Happened("train")) =>
        /\ \A k \in EpochCalls :
              /\ calls[k].epoch = Some(start_epoch + calls[k].inner)
              /\ calls[k].path = CheckpointEpochPath(OutputDir, start_epoch + calls[k].inner)
        /\ \A k \in DOMAIN Labels :
              /\ Labels[k] >= start_epoch
              /\ Labels[k] <= args.num_epochs - 1
              /\ k > 1 => Labels[k] > Labels[k - 1]
        /\ (Happened("train_returned") /\ calls # <<>> /\ EpochCalls = DOMAIN calls
                /\ Len(calls) = inner_i) =>
              Labels = [k \in 1..(args.num_epochs - start_epoch) |-> start_epoch + k - 1]

\* the second run resumed from checkpoint_epoch_0.pt of the first and saved
\* the labels 1 and 2
C16_Witness ==
    /\ runs = 2
    /\ pc = "done"
    /\ args.resume.path = CheckpointEpochPath(OutputDir, 0)
    /\ start_epoch = 1
    /\ EpochCalls = DOMAIN calls
    /\ Labels = <<1, 2>>
    /\ \E f \in FileAt(disk, CheckpointEpochPath(OutputDir, 2)) :
            f.by = "wrapper" /\ f.ck.epoch = IntEpoch(2)

----------------------------------------------------------------------------
\* C18

\* C18: the loader returns a start-epoch other than 0 only when no statement
\* of the load raised, and then the model state and the optimizer state, where
\* the bundle has them, are the ones in use; when a statement after the model
\* state raises (optimizer state, epoch, loss) the start-epoch is 0 and the
\* weights loaded from the bundle stay in the model.
C18_NonZeroOnlyIfComplete ==
    ld.called =>
        /\ ld.res.start_epoch # 0 =>
              /\ Loaded
              /\ ld.res.exc = "none"
              /\ ld.ck.model # "absent" =>
                    model_w = [src |-> "ckpt", trained |-> ld.ck.trained]
              /\ ld.ck.optim # "absent" => optim_w = "ckpt"
        /\ (Loaded /\ ld.ck.model = "ok"
                /\ ld.res.exc \in {"optimizer_state_dict", "epoch", "loss"}) =>
              /\ ld.res.start_epoch = 0
              /\ start_epoch = 0
              /\ model_w = [src |-> "ckpt", trained |-> ld.ck.trained]
              /\ model_w # ld.model_before
        /\ (Loaded /\ ld.ck.optim = "ok" /\ ld.res.exc \in {"epoch", "loss"}) =>
              optim_w = "ckpt"

\* the optimizer state raises after the model state of a bundle with epoch 2
\* was loaded
C18_Witness ==
    /\ Loaded
    /\ ld.ck.model = "ok"
    /\ ld.ck.epoch = IntEpoch(2)
    /\ ld.res.exc = "optimizer_state_dict"
    /\ start_epoch = 0
    /\ model_w.src = "ckpt"
    /\ ld.model_before.src = "init"
    /\ pc = "make_trainer"

====
